---- MODULE Spec2Model ----
(***************************************************************************)
(* A model of epitopepredict/base.py: the overlap clusterer (getClusters), *)
(* the ranking engine (getRanking), the binder selector (getBinders), the  *)
(* promiscuity aggregator (getPromiscuousBinders) and the cutoff           *)
(* calibrator with its quantile cache (getCutoffs, getScoreDistributions). *)
(*                                                                         *)
(* Numbers.  A score is an integer number of thousandths (Unit), the       *)
(* precision the quantile cache is written with.  Values the code computes *)
(* in floating point between two scores (a pivot mean, an interpolated     *)
(* quantile) are exact fractions [num, den].  A quantile level is a whole  *)
(* number of percent where the code computes with it and a whole number of *)
(* thousandths where it is a row label of the cache or a requested q.      *)
(***************************************************************************)
EXTENDS Integers, Sequences, FiniteSets, TLC

VARIABLES
    P,          \* the predictor object: scorekey, cutoff, operator, ...
    call,       \* the operation last invoked, with its arguments
    ret,        \* what that operation returned (or that it raised)
    corpus,     \* the *.csv result files in the corpus directory
    quantfile   \* quantiles.csv in the corpus directory, or NoFile

vars == <<P, call, ret, corpus, quantfile>>

----------------------------------------------------------------------------
(* General helpers *)

Min2(a, b) == IF a <= b THEN a ELSE b

\* the elements of a sequence
Range(s) == {s[i] : i \in 1..Len(s)}

\* s with the repeated occurrences of an element removed (first one kept)
RECURSIVE Distinct(_)
Distinct(s) ==
    IF s = <<>> THEN <<>>
    ELSE LET front == Distinct(SubSeq(s, 1, Len(s) - 1))
             last == s[Len(s)]
         IN IF last \in Range(front) THEN front ELSE Append(front, last)

\* the concatenation of a sequence of sequences
RECURSIVE Concat(_)
Concat(ss) == IF ss = <<>> THEN <<>> ELSE Head(ss) \o Concat(Tail(ss))

\* a set of integers as an ascending sequence
RECURSIVE Ascending(_)
Ascending(S) ==
    IF S = {} THEN <<>>
    ELSE LET m == CHOOSE x \in S : \A y \in S : x <= y
         IN <<m>> \o Ascending(S \ {m})

\* the strings of the model's tables, in lexicographic order
StrOrder ==
    <<"A", "B", "KLM", "LMN", "c1", "c2", "notes.csv", "prot1", "prot1.csv",
      "prot2", "prot2.csv", "quantiles.csv">>

StrIndex(s) == CHOOSE i \in 1..Len(StrOrder) : StrOrder[i] = s

\* a set of strings as a sequence in lexicographic order
SortedStrs(S) == SelectSeq(StrOrder, LAMBDA x : x \in S)

\* exact fractions, den > 0
Frac(n, d) == [num |-> n, den |-> d]

FracLess(a, b) == a.num * b.den < b.num * a.den

FracLeq(a, b) == a.num * b.den <= b.num * a.den

\* an operation that raised: nothing is returned
Raised(what) == [status |-> "raised", error |-> what, rows |-> <<>>]

\* an operation that returned a table (or a list)
Returned(rows) == [status |-> "ok", error |-> "", rows |-> rows]

\* an operation that returned None
ReturnedNone == [status |-> "None", error |-> "", rows |-> <<>>]

\* before the operation has run
NoRet == [status |-> "idle", error |-> "", rows |-> <<>>]

\* a data argument or attribute: None, or a table
NoneData == [isNone |-> TRUE, rows |-> <<>>]

Table(rows) == [isNone |-> FALSE, rows |-> rows]

\* a name argument left at None
NoName == "None"

NoFile == [exists |-> FALSE]

----------------------------------------------------------------------------
(* Overlap clusterer: getOverlapping, checkMembers, getClusters *)

\* for i in range(len(vals)-1): append vals[i+1] while it is within
\* `length` of vals[i]; stop at the first one that is not
RECURSIVE extendChain(_, _, _, _)
extendChain(vals, i, length, g) ==
    IF i > Len(vals) - 1 THEN g
    ELSE IF vals[i + 1] <= vals[i] + length
         THEN extendChain(vals, i + 1, length, Append(g, vals[i + 1]))
         ELSE g

\* getOverlapping scanning up to s+cutoff itself
getOverlapping_inclusive(index, s, length, cutoff) ==
    LET vals == Ascending({i \in s..(s + cutoff) : i \in index})
    IN extendChain(vals, 1, length, <<s>>)

\* index: the positions of the lookup; range(s, s+cutoff) ends at s+cutoff-1
getOverlapping(index, s, length, cutoff) ==
    LET vals == Ascending({i \in s..(s + cutoff - 1) : i \in index})
    IN extendChain(vals, 1, length, <<s>>)

\* checkMembers without the intersection test
checkMembers_noIntersect(g, clusts) ==
    ~ \E k \in 1..Len(clusts) : Len(g) < 2

\* checkMembers without the len(g)<2 test
checkMembers_intersectOnly(g, clusts) ==
    ~ \E k \in 1..Len(clusts) : Range(g) \cap Range(clusts[k]) /= {}

\* TRUE when g meets none of the current clusters; the len(g)<2 test sits
\* inside the loop, so it is only made when there is a cluster to compare
checkMembers(g, clusts) ==
    ~ \E k \in 1..Len(clusts) :
          \/ Range(g) \cap Range(clusts[k]) /= {}
          \/ Len(g) < 2

\* sorted(groups, key=len, reverse=True): stable, longest first
ranked(groups) ==
    LET lens == {Len(groups[k]) : k \in 1..Len(groups)}
        longest == IF lens = {} THEN 0
                   ELSE CHOOSE m \in lens : \A l \in lens : l <= m
        byLen(l) == SelectSeq(groups, LAMBDA g : Len(g) = l)
    IN Concat([d \in 1..longest |-> byLen(longest + 1 - d)])

\* the acceptance loop over the ranked groups
RECURSIVE acceptGroups(_, _)
acceptGroups(groups, clusts) ==
    IF groups = <<>> THEN clusts
    ELSE acceptGroups(Tail(groups),
                      IF checkMembers(Head(groups), clusts)
                      THEN Append(clusts, Head(groups))
                      ELSE clusts)

\* B: a table of rows with pos and peptide.  B.iloc[0] raises on an empty
\* table.  locs is a dict: one entry per position, in first-seen order.
getClusters(B, clustlen) ==
    IF B = <<>> THEN Raised("IndexError")
    ELSE LET nmer == Len(B[1].peptide)
             overlap == clustlen - nmer
             locs == Distinct([k \in 1..Len(B) |-> B[k].pos])
             groups == [k \in 1..Len(locs) |->
                            getOverlapping(Range(locs), locs[k], overlap, clustlen)]
         IN Returned(acceptGroups(ranked(groups), <<>>))

----------------------------------------------------------------------------
(* Inputs of the overlap clusterer *)

MaxPos == 4

MaxClustRows == 4

ClustLens == {2, 3, 4}

ClustPeptides == {"K", "KL"}

\* binders at 10, 12, 14 and 30, 9 residues each, clustered with the
\* default clustlen
ExampleB ==
    [k \in 1..4 |-> [pos |-> <<10, 12, 14, 30>>[k], peptide |-> "KLMNPQRST"]]

ExampleClustLen == 25

\* no predictor takes part in clustering
InitClust ==
    /\ P = [name |-> "none"]
    /\ \/ \E m \in 0..MaxClustRows, pep \in ClustPeptides, clustlen \in ClustLens :
              \E ps \in [1..m -> 0..MaxPos] :
                  call = [op |-> "getClusters",
                          B |-> [k \in 1..m |-> [pos |-> ps[k], peptide |-> pep]],
                          clustlen |-> clustlen]
       \/ call = [op |-> "getClusters", B |-> ExampleB,
                  clustlen |-> ExampleClustLen]
    /\ ret = NoRet
    /\ corpus = {}
    /\ quantfile = NoFile

CallGetClusters ==
    /\ call.op = "getClusters"
    /\ ret = NoRet
    /\ ret' = getClusters(call.B, call.clustlen)
    /\ UNCHANGED <<P, call, corpus, quantfile>>

NextClust == CallGetClusters

SpecClust == InitClust /\ [][NextClust]_vars

----------------------------------------------------------------------------
(* Predictors: Predictor.__init__ and the subclasses getPredictor builds *)

\* thousandths: the precision ('%.3f') of the quantile cache
Unit == 1000

NoCutoffs == [a \in {} |-> 0]

NetMHCIIPanPredictor ==
    [name |-> "netmhciipan", scorekey |-> "Affinity", cutoff |-> 500 * Unit,
     operator |-> "<", rankascending |-> 1,
     allelecutoffs |-> NoCutoffs, data |-> NoneData]

IEDBMHCIPredictor ==
    [name |-> "iedbmhc1", scorekey |-> "ic50", cutoff |-> 500 * Unit,
     operator |-> "<", rankascending |-> 1,
     allelecutoffs |-> NoCutoffs, data |-> NoneData]

IEDBMHCIIPredictor ==
    [name |-> "iedbmhc2", scorekey |-> "consensus_percentile",
     cutoff |-> 3 * Unit, operator |-> "<", rankascending |-> 1,
     allelecutoffs |-> NoCutoffs, data |-> NoneData]

TEpitopePredictor ==
    [name |-> "tepitope", scorekey |-> "score", cutoff |-> 2 * Unit,
     operator |-> ">", rankascending |-> 0,
     allelecutoffs |-> NoCutoffs, data |-> NoneData]

\* cutoff 0.9
BCellPredictor ==
    [name |-> "iedbmhc1", scorekey |-> "Score", cutoff |-> (9 * Unit) \div 10,
     operator |-> ">", rankascending |-> 0,
     allelecutoffs |-> NoCutoffs, data |-> NoneData]

Predictors ==
    {NetMHCIIPanPredictor, IEDBMHCIPredictor, IEDBMHCIIPredictor,
     TEpitopePredictor, BCellPredictor}

----------------------------------------------------------------------------
(* Table helpers: the pandas operations the code uses *)

\* df.groupby(col): the groups in the sorted order of their keys, each
\* with its rows in the order of df
groupby(df, col) ==
    LET keys == SortedStrs({df[k][col] : k \in 1..Len(df)})
    IN [i \in 1..Len(keys) |->
            [key |-> keys[i], rows |-> SelectSeq(df, LAMBDA r : r[col] = keys[i])]]

\* pd.concat(res): raises ValueError when there is nothing to concatenate
concat(res) ==
    IF res = <<>> THEN Raised("ValueError: No objects to concatenate")
    ELSE Returned(Concat(res))

\* Series.quantile(q) with linear interpolation, q in percent; xs: a
\* non-empty sequence of fractions; the result is an exact fraction
quantile(xs, q) ==
    LET srt == SortSeq(xs, FracLess)
        h == (Len(xs) - 1) * q
        lo == srt[(h \div 100) + 1]
        hi == srt[Min2((h \div 100) + 2, Len(xs))]
    IN Frac(100 * lo.num * hi.den
                + (h % 100) * (hi.num * lo.den - lo.num * hi.den),
            100 * lo.den * hi.den)

\* a stable sort of a table by the integer keys ks, one for each row
sortByInt(df, ks) ==
    LET keys == Ascending(Range(ks))
        rows == [k \in 1..Len(df) |-> k]
        idx == Concat([i \in 1..Len(keys) |->
                          SelectSeq(rows, LAMBDA k : ks[k] = keys[i])])
    IN [j \in 1..Len(df) |-> df[idx[j]]]

----------------------------------------------------------------------------
(* Ranking engine: Predictor.getRanking *)

\* rank(method='max'): every member of a tie gets its largest ordinal
rankMin_max(vals, v, asc) ==
    LET srt == SortSeq(vals, LAMBDA a, b : IF asc = 1 THEN a < b ELSE a > b)
    IN CHOOSE i \in 1..Len(srt) :
           /\ srt[i] = v
           /\ \A j \in (i + 1)..Len(srt) : srt[j] /= v

\* Series.rank(method='min', ascending=asc) of the value v among vals: the
\* values are put in order and every member of a tie gets the smallest
\* ordinal of the tie
rankMin(vals, v, asc) ==
    LET srt == SortSeq(vals, LAMBDA a, b : IF asc = 1 THEN a < b ELSE a > b)
    IN CHOOSE i \in 1..Len(srt) :
           /\ srt[i] = v
           /\ \A j \in 1..(i - 1) : srt[j] /= v

\* df with the rank column added
withRank(df, asc) ==
    LET vals == [k \in 1..Len(df) |-> df[k].score]
    IN [k \in 1..Len(df) |->
            [f \in DOMAIN df[k] \cup {"rank"} |->
                 IF f = "rank" THEN rankMin(vals, df[k].score, asc)
                 ELSE df[k][f]]]

\* the key of sort_values(by=['rank','name','allele'])
rankSortKey(r) ==
    (r.rank * (Len(StrOrder) + 1) + StrIndex(r.name)) * (Len(StrOrder) + 1)
        + StrIndex(r.allele)

\* the table is changed in place: rows ranked, then sorted
getRanking(self, df) ==
    LET ranked_df == withRank(df, self.rankascending)
    IN Returned(sortByInt(ranked_df,
                          [k \in 1..Len(ranked_df) |-> rankSortKey(ranked_df[k])]))

----------------------------------------------------------------------------
(* Binder selector: Predictor.evaluate, Predictor.getBinders *)

evaluate(df, value, operator) ==
    IF operator = "<"
    THEN SelectSeq(df, LAMBDA r : r.score <= value)
    ELSE SelectSeq(df, LAMBDA r : r.score >= value)

\* method == 'cutoff': one threshold per allele group
bindersByCutoff(self, data) ==
    LET grps == groupby(data, "allele")
        cutoffOf(a) == IF a \in DOMAIN self.allelecutoffs
                       THEN self.allelecutoffs[a]
                       ELSE self.cutoff
    IN concat([i \in 1..Len(grps) |->
                   evaluate(grps[i].rows, cutoffOf(grps[i].key), self.operator)])

\* method == 'rank': the top ranked fraction per protein
bindersByRank(data, q) ==
    LET grps == groupby(data, "name")
        value(g) == quantile([k \in 1..Len(g) |-> Frac(g[k].rank, 1)], q)
    IN concat([i \in 1..Len(grps) |->
                   SelectSeq(grps[i].rows,
                             LAMBDA r : FracLeq(Frac(r.rank, 1), value(grps[i].rows)))])

\* q in percent.  Any other method falls off the end and returns None.
getBinders(self, method, q, data, name) ==
    IF data.isNone /\ self.data.isNone THEN ReturnedNone
    ELSE LET d0 == IF data.isNone THEN self.data.rows ELSE data.rows
             d == IF name /= NoName
                  THEN SelectSeq(d0, LAMBDA r : r.name = name)
                  ELSE d0
         IN IF method = "cutoff" THEN bindersByCutoff(self, d)
            ELSE IF method = "rank" THEN bindersByRank(d, q)
            ELSE ReturnedNone

----------------------------------------------------------------------------
(* Promiscuity aggregator: Predictor.getPromiscuousBinders *)

\* a missing value of a joined column
NaN == "NaN"

keyOf(r) == [peptide |-> r.peptide, pos |-> r.pos, name |-> r.name]

\* the order groupby(['peptide','pos','name']) puts its keys in
keyLess(a, b) ==
    \/ StrIndex(a.peptide) < StrIndex(b.peptide)
    \/ /\ a.peptide = b.peptide
       /\ \/ a.pos < b.pos
          \/ a.pos = b.pos /\ StrIndex(a.name) < StrIndex(b.name)

\* the keys of a table in that order
sortedKeys(df) ==
    LET S == {keyOf(df[k]) : k \in 1..Len(df)}
    IN [i \in 1..Cardinality(S) |->
            CHOOSE x \in S : Cardinality({y \in S : keyLess(y, x)}) = i - 1]

minOf(xs) == CHOOSE v \in Range(xs) : \A w \in Range(xs) : v <= w

maxOf(xs) == CHOOSE v \in Range(xs) : \A w \in Range(xs) : v >= w

\* grps.agg({'allele': pd.Series.count, scorekey: func}), then reset_index:
\* one row per key, allele = the number of records of the group
aggregate(b, operator) ==
    LET keys == sortedKeys(b)
        rowsOf(key) == SelectSeq(b, LAMBDA r : keyOf(r) = key)
        scores(key) == [k \in 1..Len(rowsOf(key)) |-> rowsOf(key)[k].score]
    IN [i \in 1..Len(keys) |->
            [peptide |-> keys[i].peptide, pos |-> keys[i].pos,
             name |-> keys[i].name,
             allele |-> Len(rowsOf(keys[i])),
             score |-> IF operator = "<" THEN minOf(scores(keys[i]))
                       ELSE maxOf(scores(keys[i]))]]

\* list(data.groupby('allele'))[0][1] without allele, rank and the score
representative(data) ==
    LET g == groupby(data, "allele")[1].rows
    IN [k \in 1..Len(g) |->
            [peptide |-> g[k].peptide, core |-> g[k].core,
             pos |-> g[k].pos, name |-> g[k].name]]

\* pd.merge(p, s, how='right', on=['peptide','pos','name']): every row of
\* s, once per matching row of p, or once with the columns of p missing.
\* The order of the joined rows differs between pandas releases: that of
\* the keys of s ("right"), or that of the first occurrence of the keys in
\* p followed by the keys p lacks ("left").
merge(p, s, order) ==
    LET joined(sr) ==
            LET m == SelectSeq(p, LAMBDA pr : keyOf(pr) = keyOf(sr))
            IN IF m = <<>>
               THEN <<[peptide |-> sr.peptide, core |-> NaN, pos |-> sr.pos,
                       name |-> sr.name, allele |-> sr.allele,
                       score |-> sr.score]>>
               ELSE [k \in 1..Len(m) |->
                         [peptide |-> sr.peptide, core |-> m[k].core,
                          pos |-> sr.pos, name |-> sr.name,
                          allele |-> sr.allele, score |-> sr.score]]
        pkeys == Distinct([k \in 1..Len(p) |-> keyOf(p[k])])
        inP == SelectSeq(s, LAMBDA sr : keyOf(sr) \in Range(pkeys))
        notInP == SelectSeq(s, LAMBDA sr : keyOf(sr) \notin Range(pkeys))
        byP == Concat([k \in 1..Len(pkeys) |->
                           SelectSeq(inP, LAMBDA sr : keyOf(sr) = pkeys[k])])
        rows == IF order = "right" THEN s ELSE byP \o notInP
    IN Concat([k \in 1..Len(rows) |-> joined(rows[k])])

\* the core groups aggregated with the count of line 442 for the score
dedupByCore_count(final) ==
    LET g == groupby(SelectSeq(final, LAMBDA r : r.core /= NaN), "core")
        agg == [i \in 1..Len(g) |->
                    [core |-> g[i].key,
                     score |-> Len(g[i].rows),
                     name |-> g[i].rows[1].name,
                     peptide |-> g[i].rows[1].peptide,
                     pos |-> g[i].rows[1].pos,
                     allele |-> g[i].rows[1].allele]]
    IN sortByInt(agg, [k \in 1..Len(agg) |-> agg[k].pos])

\* final.groupby('core').agg({scorekey: max, 'name': first, 'peptide':
\* first, 'pos': first, 'allele': first}), reset_index, sort_values('pos').
\* groupby leaves out the rows whose core is missing.
dedupByCore(final) ==
    LET g == groupby(SelectSeq(final, LAMBDA r : r.core /= NaN), "core")
        agg == [i \in 1..Len(g) |->
                    [core |-> g[i].key,
                     score |-> maxOf([k \in 1..Len(g[i].rows) |-> g[i].rows[k].score]),
                     name |-> g[i].rows[1].name,
                     peptide |-> g[i].rows[1].peptide,
                     pos |-> g[i].rows[1].pos,
                     allele |-> g[i].rows[1].allele]]
    IN sortByInt(agg, [k \in 1..Len(agg) |-> agg[k].pos])

\* getPromiscuousBinders keeping the groups of exactly n records
getPromiscuousBinders_exactlyN(self, n, method, data, name, order) ==
    LET d == IF data.isNone THEN self.data ELSE data
        b == getBinders(self, method, 1, d, name)
    IN IF b.status = "raised" THEN b
       ELSE IF b.status = "None" \/ Len(b.rows) = 0 THEN Returned(<<>>)
       ELSE LET s == SelectSeq(aggregate(b.rows, self.operator),
                               LAMBDA r : r.allele = n)
                p == representative(d.rows)
            IN IF s /= <<>>
               THEN Returned(dedupByCore(merge(p, s, order)))
               ELSE Returned(<<>>)

\* getBinders is called with its default q = 0.01
getPromiscuousBinders(self, n, method, data, name, order) ==
    LET d == IF data.isNone THEN self.data ELSE data
        b == getBinders(self, method, 1, d, name)
    IN IF b.status = "raised" THEN b
       ELSE IF b.status = "None" \/ Len(b.rows) = 0 THEN Returned(<<>>)
       ELSE LET s == SelectSeq(aggregate(b.rows, self.operator),
                               LAMBDA r : r.allele >= n)
                p == representative(d.rows)
            IN IF s /= <<>>
               THEN Returned(dedupByCore(merge(p, s, order)))
               ELSE Returned(<<>>)

----------------------------------------------------------------------------
(* Inputs of the table operations *)

MaxRankRows == 3

MaxBinderRows == 2

MaxRankModeRows == 3

MaxPromiscRows == 3

MaxN == 2

\* a lower-is-better and a higher-is-better predictor
TablePredictors == {NetMHCIIPanPredictor, TEpitopePredictor}

Names == {"prot1", "prot2"}

Alleles == {"A", "B"}

\* the peptide found at a position
Pep(pos) == IF pos = 1 THEN "KLM" ELSE "LMN"

Row(name, allele, pos, core, score, rank) ==
    [name |-> name, allele |-> allele, peptide |-> Pep(pos), core |-> core,
     pos |-> pos, score |-> score, rank |-> rank]

\* scores on both sides of the predictor's default cutoff, and on it
ScoresNear(self) == {self.cutoff - 1, self.cutoff, self.cutoff + 1}

\* one step from the default cutoff towards the better scores
Stricter(self) ==
    IF self.operator = "<" THEN self.cutoff - 1 ELSE self.cutoff + 1

\* one step from the default cutoff towards the worse scores
Looser(self) ==
    IF self.operator = "<" THEN self.cutoff + 1 ELSE self.cutoff - 1

\* the predictor with a cutoff of its own for allele A, none for B
WithCutoffA(self, value) ==
    [self EXCEPT !.allelecutoffs = [a \in {"A"} |-> value]]

\* a table handed over as the data argument, or held in self.data (short
\* tables only), or not there at all
Sources(self, t) ==
    {<<self, Table(t)>>}
        \cup (IF Len(t) <= 1
              THEN {<<[self EXCEPT !.data = Table(t)], NoneData>>}
              ELSE {})
        \cup (IF t = <<>> THEN {<<self, NoneData>>} ELSE {})

\* getRanking: rows that have no rank yet
RankRows(self) ==
    {[name |-> "prot1", allele |-> a, peptide |-> Pep(1), core |-> "c1",
      pos |-> 1, score |-> sc] : a \in Alleles, sc \in ScoresNear(self)}

InitGetRanking ==
    \E self \in Predictors, m \in 0..MaxRankRows :
        \E t \in [1..m -> RankRows(self)] :
            /\ P = self
            /\ call = [op |-> "getRanking", df |-> t]

\* getBinders by cutoff: allele A has a stricter cutoff of its own
CutoffRows(self) ==
    {Row(nm, a, 1, "c1", sc, 1) :
         nm \in Names, a \in Alleles, sc \in ScoresNear(self)}

InitGetBindersCutoff ==
    \E self \in TablePredictors, m \in 0..MaxBinderRows, nm \in {NoName, "prot1"} :
        \E t \in [1..m -> CutoffRows(self)] :
            \E src \in Sources(WithCutoffA(self, Stricter(self)), t) :
                /\ P = src[1]
                /\ call = [op |-> "getBinders", method |-> "cutoff", q |-> 1,
                           data |-> src[2], name |-> nm]

\* getBinders by rank
RankModeRows(self) ==
    {Row(nm, a, 1, "c1", self.cutoff, rk) :
         nm \in Names, a \in Alleles, rk \in 1..2}

RankModeQs == {1, 50}

InitGetBindersRank ==
    \E self \in TablePredictors, m \in 0..MaxRankModeRows, q \in RankModeQs :
        \E t \in [1..m -> RankModeRows(self)] :
            \E src \in Sources(WithCutoffA(self, Stricter(self)), t) :
                /\ P = src[1]
                /\ call = [op |-> "getBinders", method |-> "rank", q |-> q,
                           data |-> src[2], name |-> NoName]

\* getPromiscuousBinders: allele A has a looser cutoff of its own, so that
\* both scores bind for A and one of them for B; the peptide at position 1
\* has the core c1, the one at position 2 either core
PromiscRows(self) ==
    {Row("prot1", a, pc[1], pc[2], sc, 1) :
         a \in Alleles, pc \in {<<1, "c1">>, <<2, "c1">>, <<2, "c2">>},
         sc \in {self.cutoff, Looser(self)}}

MergeOrders == {"left", "right"}

InitGetPromiscuousBinders ==
    \E self \in TablePredictors, m \in 0..MaxPromiscRows,
       n \in 1..MaxN, o \in MergeOrders :
        \E t \in [1..m -> PromiscRows(self)] :
            \E src \in Sources(WithCutoffA(self, Looser(self)), t) :
                /\ P = src[1]
                /\ call = [op |-> "getPromiscuousBinders", n |-> n,
                           method |-> "cutoff", data |-> src[2],
                           name |-> NoName, order |-> o]

InitTable ==
    /\ \/ InitGetRanking
       \/ InitGetBindersCutoff
       \/ InitGetBindersRank
       \/ InitGetPromiscuousBinders
    /\ ret = NoRet
    /\ corpus = {}
    /\ quantfile = NoFile

CallGetRanking ==
    /\ call.op = "getRanking"
    /\ ret = NoRet
    /\ ret' = getRanking(P, call.df)
    /\ UNCHANGED <<P, call, corpus, quantfile>>

CallGetBinders ==
    /\ call.op = "getBinders"
    /\ ret = NoRet
    /\ ret' = getBinders(P, call.method, call.q, call.data, call.name)
    /\ UNCHANGED <<P, call, corpus, quantfile>>

CallGetPromiscuousBinders ==
    /\ call.op = "getPromiscuousBinders"
    /\ ret = NoRet
    /\ ret' = getPromiscuousBinders(P, call.n, call.method, call.data,
                                    call.name, call.order)
    /\ UNCHANGED <<P, call, corpus, quantfile>>

NextTable ==
    \/ CallGetRanking
    \/ CallGetBinders
    \/ CallGetPromiscuousBinders

SpecTable == InitTable /\ [][NextTable]_vars

----------------------------------------------------------------------------
(* Cutoff calibrator: getScoreDistributions, getCutoffs *)

\* files[:200]
MaxScan == 200

\* the row labels of the quantile table in thousandths: 0.01 ... 0.99
Labels == {10 * k : k \in 1..99}

\* '%.3f' of a non-negative fraction of thousandths: the nearest whole
\* number of thousandths.  An exact tie goes to the even neighbour here;
\* in floating point it goes wherever the binary value of the tie lies.
Fmt3(f) ==
    LET whole == f.num \div f.den
        twice == 2 * (f.num % f.den)
    IN IF twice < f.den THEN whole
       ELSE IF twice > f.den THEN whole + 1
       ELSE IF whole % 2 = 0 THEN whole ELSE whole + 1

\* glob.glob(os.path.join(path, '*.csv')): the result files and, once it
\* is written, quantiles.csv itself, which has no score column
glob(files, qfile) ==
    LET names == SortedStrs({f.name : f \in files})
        listed == [k \in 1..Len(names) |->
                       CHOOSE f \in files : f.name = names[k]]
    IN IF qfile.exists
       THEN Append(listed, [name |-> "quantiles.csv", haskey |-> FALSE,
                            rows |-> <<>>])
       ELSE listed

\* df.pivot_table(index='peptide', columns='allele', values=key): one cell
\* per peptide and allele of the file, the mean of its scores
pivot_table(df) ==
    LET cells == {<<df[k].peptide, df[k].allele>> : k \in 1..Len(df)}
        scoresOf(c) == SelectSeq(df, LAMBDA r : <<r.peptide, r.allele>> = c)
        sum(c) == LET rs == scoresOf(c)
                      add[k \in 0..Len(rs)] ==
                          IF k = 0 THEN 0 ELSE add[k - 1] + rs[k].score
                  IN add[Len(rs)]
    IN {[peptide |-> c[1], allele |-> c[2],
         value |-> Frac(sum(c), Len(scoresOf(c)))] : c \in cells}

\* the loop over files[:200]: the pivoted tables of the files that have
\* the score column
scanned(files) ==
    LET first200 == SubSeq(files, 1, Min2(Len(files), MaxScan))
        usable == SelectSeq(first200, LAMBDA f : f.haskey)
    IN [k \in 1..Len(usable) |-> pivot_table(usable[k].rows)]

\* the column of an allele in pd.concat(results): its cells, file by file
column(results, a) ==
    LET cellsOf(x) == {c \in x : c.allele = a}
        asSeq(S) == [i \in 1..Cardinality(S) |->
                        CHOOSE c \in S :
                            Cardinality({d \in S :
                                StrIndex(d.peptide) < StrIndex(c.peptide)}) = i - 1]
    IN Concat([k \in 1..Len(results) |->
                   [i \in 1..Cardinality(cellsOf(results[k])) |->
                        asSeq(cellsOf(results[k]))[i].value]])

\* bins with the index left as it is
bins_notReversed(results, operator) ==
    LET alleles == UNION {{c.allele : c \in results[k]} : k \in 1..Len(results)}
        col == [a \in alleles |-> column(results, a)]
    IN [label \in Labels |->
            [a \in alleles |-> Fmt3(quantile(col[a], label \div 10))]]

\* result.quantile(percs), the index reversed (1 - x) when lower scores
\* are better, written with '%.3f' and read back: label -> allele -> value
bins(results, operator) ==
    LET alleles == UNION {{c.allele : c \in results[k]} : k \in 1..Len(results)}
        perc(label) == IF operator = "<" THEN 100 - (label \div 10)
                       ELSE label \div 10
        col == [a \in alleles |-> column(results, a)]
    IN [label \in Labels |->
            [a \in alleles |-> Fmt3(quantile(col[a], perc(label)))]]

\* the outcome of getScoreDistributions: the file it leaves, and whether
\* it raised (pd.concat of no tables)
getScoreDistributions(predictor, files, qfile) ==
    LET results == scanned(glob(files, qfile))
    IN IF results = <<>>
       THEN [status |-> "raised",
             error |-> "ValueError: No objects to concatenate",
             quantfile |-> qfile]
       ELSE [status |-> "ok", error |-> "",
             quantfile |-> [exists |-> TRUE,
                            table |-> bins(results, predictor.operator)]]

\* getCutoffs that rescans only when the file is absent
getCutoffs_ignoreOverwrite(predictor, files, qfile, data, q, overwrite) ==
    LET rescan == ~ qfile.exists
        dist == IF rescan THEN getScoreDistributions(predictor, files, qfile)
                ELSE [status |-> "ok", error |-> "", quantfile |-> qfile]
        found == q \in DOMAIN dist.quantfile.table
    IN [quantfile |-> dist.quantfile,
        ret |-> [status |-> IF dist.status = "ok" /\ found THEN "ok"
                            ELSE "raised",
                 error |-> IF dist.status /= "ok" THEN dist.error
                           ELSE IF found THEN "" ELSE "KeyError",
                 rows |-> <<>>,
                 cutoffs |-> IF dist.status = "ok" /\ found
                             THEN dist.quantfile.table[q]
                             ELSE NoCutoffs,
                 rescanned |-> rescan,
                 written |-> rescan /\ dist.status = "ok"]]

\* getCutoffs that reads the row of its default q = 0.98 whatever q is
getCutoffs_defaultQ(predictor, files, qfile, data, q, overwrite) ==
    LET rescan == ~ qfile.exists \/ overwrite
        dist == IF rescan THEN getScoreDistributions(predictor, files, qfile)
                ELSE [status |-> "ok", error |-> "", quantfile |-> qfile]
    IN [quantfile |-> dist.quantfile,
        ret |-> [status |-> dist.status,
                 error |-> dist.error,
                 rows |-> <<>>,
                 cutoffs |-> IF dist.status = "ok"
                             THEN dist.quantfile.table[980]
                             ELSE NoCutoffs,
                 rescanned |-> rescan,
                 written |-> rescan /\ dist.status = "ok"]]

\* getCutoffs(predictor, path, data, q, overwrite), q in thousandths: what
\* it returns and the file it leaves.  quantiles.ix[q] is a lookup by
\* label and raises KeyError for a q that is no label.
getCutoffs(predictor, files, qfile, data, q, overwrite) ==
    LET rescan == ~ qfile.exists \/ overwrite
        dist == IF rescan THEN getScoreDistributions(predictor, files, qfile)
                ELSE [status |-> "ok", error |-> "", quantfile |-> qfile]
        found == q \in DOMAIN dist.quantfile.table
    IN [quantfile |-> dist.quantfile,
        ret |-> [status |-> IF dist.status = "ok" /\ found THEN "ok"
                            ELSE "raised",
                 error |-> IF dist.status /= "ok" THEN dist.error
                           ELSE IF found THEN "" ELSE "KeyError",
                 rows |-> <<>>,
                 cutoffs |-> IF dist.status = "ok" /\ found
                             THEN dist.quantfile.table[q]
                             ELSE NoCutoffs,
                 rescanned |-> rescan,
                 written |-> rescan /\ dist.status = "ok"]]

----------------------------------------------------------------------------
(* The corpus directory and the calls on it *)

\* result files as predictProteins writes them, and a csv file of another
\* kind; prot2.csv holds the peptide KLM twice for allele A
CorpusFiles ==
    {[name |-> "prot1.csv", haskey |-> TRUE,
      rows |-> <<Row("prot1", "A", 1, "c1", 1000, 1),
                 Row("prot1", "A", 2, "c2", 1001, 2),
                 Row("prot1", "B", 1, "c1", 3000, 1)>>],
     [name |-> "prot2.csv", haskey |-> TRUE,
      rows |-> <<Row("prot2", "A", 1, "c1", 1004, 1),
                 Row("prot2", "A", 1, "c1", 1007, 2),
                 Row("prot2", "B", 2, "c2", 3004, 1)>>],
     [name |-> "notes.csv", haskey |-> FALSE, rows |-> <<>>]}

\* requested quantile levels, in thousandths; 0.953 is no row label
Qs == {10, 953, 980, 990}

InitCache ==
    /\ P \in TablePredictors
    /\ call = [op |-> "none", tick |-> 0]
    /\ ret = NoRet
    /\ corpus = {}
    /\ quantfile = NoFile

Tick == 1 - call.tick

\* a result file is written to the directory
AddFile ==
    \E f \in CorpusFiles \ corpus :
        /\ corpus' = corpus \cup {f}
        /\ call' = [op |-> "addFile", tick |-> Tick]
        /\ ret' = NoRet
        /\ UNCHANGED <<P, quantfile>>

\* a file is taken out of the directory
RemoveFile ==
    \E f \in corpus :
        /\ corpus' = corpus \ {f}
        /\ call' = [op |-> "removeFile", tick |-> Tick]
        /\ ret' = NoRet
        /\ UNCHANGED <<P, quantfile>>

\* quantiles.csv is deleted
DeleteCache ==
    /\ quantfile.exists
    /\ quantfile' = NoFile
    /\ call' = [op |-> "deleteCache", tick |-> Tick]
    /\ ret' = NoRet
    /\ UNCHANGED <<P, corpus>>

CallGetCutoffs ==
    \E q \in Qs, overwrite \in BOOLEAN :
        LET out == getCutoffs(P, corpus, quantfile, NoneData, q, overwrite)
        IN /\ call' = [op |-> "getCutoffs", tick |-> Tick, q |-> q,
                       overwrite |-> overwrite]
           /\ ret' = out.ret
           /\ quantfile' = out.quantfile
           /\ UNCHANGED <<P, corpus>>

NextCache ==
    \/ AddFile
    \/ RemoveFile
    \/ DeleteCache
    \/ CallGetCutoffs

SpecCache == InitCache /\ [][NextCache]_vars

----------------------------------------------------------------------------
(* Binders of a whole directory: getBindersfromPath *)

\* result['start'] = result.pos; result['end'] = result.pos + the peptide's
\* length
withSpan(r) ==
    [f \in DOMAIN r \cup {"start", "end"} |->
        IF f = "start" THEN r.pos
        ELSE IF f = "end" THEN r.pos + Len(r.peptide)
        ELSE r[f]]

\* getBindersfromPath(method, path, n, cutoff, promiscuous), predictor being
\* getPredictor(method): the predictor with its cutoffs set, the file left
\* in the directory and what is returned.  The third positional argument of
\* getCutoffs is `data`, so cutoff lands there and q keeps its default 0.98.
getBindersfromPath(predictor, files, qfile, n, cutoff, promiscuous, order) ==
    LET usable == SelectSeq(glob(files, qfile), LAMBDA f : f.haskey)
        b(self, f) ==
            IF promiscuous
            THEN getPromiscuousBinders(self, n, "cutoff", Table(f.rows),
                                       NoName, order)
            ELSE getBinders(self, "cutoff", 1, Table(f.rows), NoName)
        \* the loop over the files, P.allelecutoffs being set
        loop(self) == [k \in 1..Len(usable) |-> b(self, usable[k])]
        \* pd.concat(binders) and the two added columns
        finish(self, out, binders) ==
            LET failed == {k \in 1..Len(usable) : binders[k].status = "raised"}
                result == concat([k \in 1..Len(usable) |-> binders[k].rows])
            IN IF failed /= {}
               THEN [P |-> self, quantfile |-> out.quantfile,
                     ret |-> binders[CHOOSE k \in failed :
                                         \A j \in failed : k <= j]]
               ELSE IF result.status = "raised"
               THEN [P |-> self, quantfile |-> out.quantfile, ret |-> result]
               ELSE [P |-> self, quantfile |-> out.quantfile,
                     ret |-> Returned([k \in 1..Len(result.rows) |->
                                           withSpan(result.rows[k])])]
        \* after getCutoffs has returned or raised
        after(out) ==
            IF out.ret.status = "raised"
            THEN {[P |-> predictor, quantfile |-> out.quantfile,
                   ret |-> Raised(out.ret.error)]}
            ELSE {finish(self, out, binders) :
                      self \in {[predictor EXCEPT
                                    !.allelecutoffs = out.ret.cutoffs]},
                      binders \in {loop([predictor EXCEPT
                                    !.allelecutoffs = out.ret.cutoffs])}}
    \* each value is computed once: the sets below have one element
    IN CHOOSE res \in UNION {after(out) :
                  out \in {getCutoffs(predictor, files, qfile, cutoff,
                                      980, TRUE)}} : TRUE

\* cutoff arguments, in thousandths: the default 0.95 and two other row
\* labels of the quantile table
PathCutoffs == {500, 950, 980}

InitPath ==
    /\ P \in TablePredictors
    /\ corpus \in SUBSET CorpusFiles
    /\ quantfile = NoFile
    /\ \E n \in 1..MaxN, cutoff \in PathCutoffs, promiscuous \in BOOLEAN,
          o \in MergeOrders :
           call = [op |-> "getBindersfromPath", n |-> n, cutoff |-> cutoff,
                   promiscuous |-> promiscuous, order |-> o]
    /\ ret = NoRet

CallGetBindersfromPath ==
    /\ call.op = "getBindersfromPath"
    /\ ret = NoRet
    /\ LET out == getBindersfromPath(P, corpus, quantfile, call.n,
                                     call.cutoff, call.promiscuous,
                                     call.order)
       IN /\ P' = out.P
          /\ quantfile' = out.quantfile
          /\ ret' = out.ret
    /\ UNCHANGED <<call, corpus>>

NextPath == CallGetBindersfromPath

SpecPath == InitPath /\ [][NextPath]_vars

----------------------------------------------------------------------------
(* Density clustering of binder positions: dbscan *)

\* the label DBSCAN gives a position that belongs to no cluster
Noise == -1

\* x[i] and x[j] as the points (x[i], 0) and (x[j], 0): their distance
distance(x, i, j) == IF x[i] >= x[j] THEN x[i] - x[j] ELSE x[j] - x[i]

\* the points within eps of point i, itself included
neighbors(x, i, eps) == {j \in 1..Len(x) : distance(x, i, j) <= eps}

\* a core point has at least min_samples points in its neighbourhood
isCore(x, i, eps, min_samples) ==
    Cardinality(neighbors(x, i, eps)) >= min_samples

\* the points a new cluster takes: its seed and, through the core points
\* among them, every point reached that has no label yet
RECURSIVE expand(_, _, _, _, _)
expand(x, eps, min_samples, labels, members) ==
    LET new == {v \in 1..Len(x) :
                   /\ v \notin members
                   /\ labels[v] = Noise
                   /\ \E u \in members : /\ isCore(x, u, eps, min_samples)
                                         /\ v \in neighbors(x, u, eps)}
    IN IF new = {} THEN members
       ELSE expand(x, eps, min_samples, labels, members \cup new)

\* DBSCAN.fit: the points in index order, each unlabelled core point
\* starting the cluster with the next label
RECURSIVE fit(_, _, _, _, _, _)
fit(x, eps, min_samples, i, labels, label_num) ==
    IF i > Len(x) THEN labels
    ELSE IF labels[i] /= Noise \/ ~isCore(x, i, eps, min_samples)
    THEN fit(x, eps, min_samples, i + 1, labels, label_num)
    ELSE LET members == expand(x, eps, min_samples, labels, {i})
         IN fit(x, eps, min_samples, i + 1,
                [v \in 1..Len(x) |->
                    IF v \in members THEN label_num ELSE labels[v]],
                label_num + 1)

\* db.labels_ for the points x
labelsOf(x, eps, min_samples) ==
    fit(x, eps, min_samples, 1, [v \in 1..Len(x) |-> Noise], 0)

\* the interpreters the module declares itself for (print_function)
Pythons == {2, 3}

\* the loop of dbscan over the labels 0 .. n_clusters_ - 1
RECURSIVE clustsUpTo(_, _, _)
clustsUpTo(x, labels, k) ==
    IF k < 0 THEN <<>>
    ELSE LET rest == clustsUpTo(x, labels, k - 1)
             idx == SelectSeq([v \in 1..Len(x) |-> v],
                              LAMBDA v : labels[v] = k)
             my_members == [j \in 1..Len(idx) |-> x[idx[j]]]
         IN IF Len(my_members) > 0 THEN Append(rest, my_members) ELSE rest

\* dbscan(B, dist=dist, minsize=minsize).  zip(...) is a list under
\* Python 2; under Python 3 it is an iterator, which np.array cannot
\* convert to dtype int
dbscan(B, dist, minsize, python) ==
    IF Len(B) = 0 THEN ReturnedNone
    ELSE IF python = 3 THEN Raised("TypeError")
    ELSE LET pos == [k \in 1..Len(B) |-> B[k].pos]
             x == sortByInt(pos, pos)
             labels == labelsOf(x, dist, minsize)
             n_clusters_ == Cardinality(Range(labels))
         IN Returned(clustsUpTo(x, labels, n_clusters_ - 1))

MaxDbPos == 5

MaxDbRows == 4

Dists == {1, 2}

MinSizes == {1, 2, 3}

InitDbscan ==
    /\ P = [name |-> "none"]
    /\ \E m \in 0..MaxDbRows, dist \in Dists, minsize \in MinSizes,
          python \in Pythons :
           \E ps \in [1..m -> 0..MaxDbPos] :
               call = [op |-> "dbscan",
                       B |-> [k \in 1..m |-> [pos |-> ps[k]]],
                       dist |-> dist, minsize |-> minsize,
                       python |-> python]
    /\ ret = NoRet
    /\ corpus = {}
    /\ quantfile = NoFile

CallDbscan ==
    /\ call.op = "dbscan"
    /\ ret = NoRet
    /\ ret' = dbscan(call.B, call.dist, call.minsize, call.python)
    /\ UNCHANGED <<P, call, corpus, quantfile>>

NextDbscan == CallDbscan

SpecDbscan == InitDbscan /\ [][NextDbscan]_vars

----------------------------------------------------------------------------
(* Vocabulary of the claims *)

\* how often the row r occurs in the table df
Count(df, r) == Cardinality({k \in 1..Len(df) : df[k] = r})

\* the same rows, each as often, in whatever order
SameRows(a, b) == \A r \in Range(a) \cup Range(b) : Count(a, r) = Count(b, r)

\* a is a strictly better score than b for this predictor
Better(self, a, b) == IF self.operator = "<" THEN a < b ELSE a > b

\* a satisfies the direction-aware comparison against the cutoff c
Passes(self, a, c) == IF self.operator = "<" THEN a <= c ELSE a >= c

\* the table an operation works on: the data argument, else self.data
GivenData == IF call.data.isNone THEN P.data ELSE call.data

\* its rows, those of the named protein when a name is given
InputRows ==
    IF call.name = NoName THEN GivenData.rows
    ELSE SelectSeq(GivenData.rows, LAMBDA r : r.name = call.name)

Done(op) == call.op = op /\ ret.status /= "idle"

----------------------------------------------------------------------------
(* C2: the clusters getClusters returns are pairwise disjoint: no position *)
(* occurs in two accepted clusters.                                        *)
C2_ClustersDisjoint ==
    (call.op = "getClusters" /\ ret.status = "ok") =>
        \A i, j \in 1..Len(ret.rows) :
            i /= j => Range(ret.rows[i]) \cap Range(ret.rows[j]) = {}

\* two clusters are accepted, and a chain was turned down
C2_Witness ==
    /\ call.op = "getClusters"
    /\ ret.status = "ok"
    /\ Len(ret.rows) >= 2
    /\ \A k \in 1..Len(ret.rows) : Len(ret.rows[k]) >= 2
    /\ Len(ret.rows) < Cardinality({call.B[k].pos : k \in 1..Len(call.B)})
----------------------------------------------------------------------------
(* C3 (as claimed): the promiscuity filter is monotonic in n: the set of   *)
(* positions in the output of getPromiscuousBinders with threshold n+1 is  *)
(* a subset of the set of positions in its output with threshold n.        *)
NextThreshold ==
    getPromiscuousBinders(P, call.n + 1, call.method, call.data, call.name,
                          call.order)

PositionsOf(df) == {df[k].pos : k \in 1..Len(df)}

CoresOf(df) == {df[k].core : k \in 1..Len(df)}

C3_PositionsMonotonic ==
    (Done("getPromiscuousBinders") /\ ret.status = "ok") =>
        PositionsOf(NextThreshold.rows) \subseteq PositionsOf(ret.rows)

(* C3 (amended): the promiscuity filter is monotonic in n in its core      *)
(* motifs: the set of cores in the output with threshold n+1 is a subset   *)
(* of the set of cores in the output with threshold n.                     *)
C3_CoresMonotonic ==
    (Done("getPromiscuousBinders") /\ ret.status = "ok") =>
        /\ NextThreshold.status = "ok"
        /\ CoresOf(NextThreshold.rows) \subseteq CoresOf(ret.rows)

\* threshold n+1 still returns a core and has lost another
C3_Witness ==
    /\ Done("getPromiscuousBinders")
    /\ ret.status = "ok"
    /\ CoresOf(NextThreshold.rows) /= {}
    /\ CoresOf(NextThreshold.rows) /= CoresOf(ret.rows)

----------------------------------------------------------------------------
(* C4: for threshold n, a (peptide, position, protein) key that is a       *)
(* binder in fewer than n alleles never appears in the output of           *)
(* getPromiscuousBinders, and a key that is a binder in n or more alleles  *)
(* is in the output with allele_count equal to its number of supporting    *)
(* alleles and best_score equal to the extreme (minimum when lower is      *)
(* better, maximum when higher is better) of the scores of those records.  *)
BinderRows == getBinders(P, call.method, 1, GivenData, call.name).rows

SupportOf(key) == SelectSeq(BinderRows, LAMBDA r : keyOf(r) = key)

SupportingAlleles(key) == {r.allele : r \in Range(SupportOf(key))}

ExtremeScore(key) ==
    LET scores == {r.score : r \in Range(SupportOf(key))}
    IN CHOOSE v \in scores : \A w \in scores : v = w \/ Better(P, v, w)

C4_ThresholdAndAggregates ==
    (Done("getPromiscuousBinders") /\ ret.status = "ok") =>
        \A key \in {keyOf(r) : r \in Range(BinderRows)} :
            IF Cardinality(SupportingAlleles(key)) < call.n
            THEN \A r \in Range(ret.rows) : keyOf(r) /= key
            ELSE \E r \in Range(ret.rows) :
                     /\ keyOf(r) = key
                     /\ r.allele = Cardinality(SupportingAlleles(key))
                     /\ r.score = ExtremeScore(key)

----------------------------------------------------------------------------
(* C5: in cutoff mode getBinders returns exactly the input rows whose      *)
(* score satisfies the direction-aware comparison against their own        *)
(* allele's threshold (the allele's entry in allelecutoffs when present,   *)
(* the predictor's default cutoff otherwise): no qualifying row is         *)
(* dropped and no other row is kept.                                       *)
Threshold(self, a) ==
    IF a \in DOMAIN self.allelecutoffs THEN self.allelecutoffs[a]
    ELSE self.cutoff

Qualifies(r) == Passes(P, r.score, Threshold(P, r.allele))

C5_CutoffModeExact ==
    (Done("getBinders") /\ call.method = "cutoff" /\ ~ GivenData.isNone) =>
        /\ ret.status = "ok"
        /\ SameRows(ret.rows, SelectSeq(InputRows, Qualifies))

\* the same on every table that has a row to select from
CutoffModeExactOnRows ==
    (Done("getBinders") /\ call.method = "cutoff" /\ InputRows /= <<>>) =>
        /\ ret.status = "ok"
        /\ SameRows(ret.rows, SelectSeq(InputRows, Qualifies))

\* a row of allele A dropped by A's own cutoff although it passes the
\* default one, beside a row of allele B kept at the default cutoff
CutoffModeOwnThreshold ==
    /\ Done("getBinders")
    /\ call.method = "cutoff"
    /\ ret.status = "ok"
    /\ \E r \in Range(InputRows) :
           /\ r.allele = "A"
           /\ Passes(P, r.score, P.cutoff)
           /\ r \notin Range(ret.rows)
    /\ \E r \in Range(ret.rows) : r.allele = "B" /\ r.score = P.cutoff

----------------------------------------------------------------------------
(* C6: an empty input is never an error: getBinders (cutoff or rank mode)  *)
(* called with a table of zero rows returns an empty table without         *)
(* raising, and so does getPromiscuousBinders.                             *)
C6_EmptyInputNoError ==
    (/\ Done("getBinders") \/ Done("getPromiscuousBinders")
     /\ ~ GivenData.isNone
     /\ GivenData.rows = <<>>)
        => (ret.status = "ok" /\ ret.rows = <<>>)

----------------------------------------------------------------------------
(* C7: getRanking keeps every input row and gives each a rank such that    *)
(* records with equal score get the same rank, equal to the smallest       *)
(* 1-based ordinal a member of the tie would occupy in a strict ordering   *)
(* by score under the predictor's direction, and a record with a strictly  *)
(* better score has a strictly smaller rank than one with a worse score.   *)
Unranked(r) == [f \in DOMAIN r \ {"rank"} |-> r[f]]

C7_RankMinTies ==
    Done("getRanking") =>
        LET out == ret.rows
            in == call.df
        IN /\ ret.status = "ok"
           /\ SameRows([k \in 1..Len(out) |-> Unranked(out[k])], in)
           /\ \A k \in 1..Len(out) :
                  out[k].rank =
                      1 + Cardinality({j \in 1..Len(in) :
                                           Better(P, in[j].score, out[k].score)})
           /\ \A i, j \in 1..Len(out) :
                  /\ out[i].score = out[j].score => out[i].rank = out[j].rank
                  /\ Better(P, out[i].score, out[j].score)
                         => out[i].rank < out[j].rank

\* a tie that is not at the top: two rows share rank 2 behind a better one
C7_Witness ==
    /\ Done("getRanking")
    /\ P.operator = ">"
    /\ \E i, j, k \in 1..Len(ret.rows) :
           /\ i /= j
           /\ ret.rows[i].score = ret.rows[j].score
           /\ ret.rows[i].rank = 2
           /\ ret.rows[j].rank = 2
           /\ ret.rows[k].rank = 1

----------------------------------------------------------------------------
(* C10: in rank mode getBinders partitions the rows by protein name only   *)
(* and returns, for each protein, exactly the rows whose rank is at most   *)
(* the q-quantile of the ranks of that protein's rows; allelecutoffs and   *)
(* the default cutoff play no part.                                        *)
RanksOfProtein(nm) ==
    LET g == SelectSeq(InputRows, LAMBDA r : r.name = nm)
    IN [k \in 1..Len(g) |-> Frac(g[k].rank, 1)]

InTopFraction(r) ==
    FracLeq(Frac(r.rank, 1), quantile(RanksOfProtein(r.name), call.q))

C10_RankModeExact ==
    (Done("getBinders") /\ call.method = "rank" /\ ~ GivenData.isNone) =>
        /\ ret.status = "ok"
        /\ SameRows(ret.rows, SelectSeq(InputRows, InTopFraction))

\* the same on every table that has a row to select from
RankModeExactOnRows ==
    (Done("getBinders") /\ call.method = "rank" /\ InputRows /= <<>>) =>
        /\ ret.status = "ok"
        /\ SameRows(ret.rows, SelectSeq(InputRows, InTopFraction))

\* two proteins; in one of them, with rows of both alleles, a row is kept
\* and a row is dropped, and a kept row fails the predictor's cutoffs
RankModeByProteinOnly ==
    /\ Done("getBinders")
    /\ call.method = "rank"
    /\ ret.status = "ok"
    /\ Cardinality({InputRows[k].name : k \in 1..Len(InputRows)}) = 2
    /\ \E r1, r2 \in Range(InputRows) :
           /\ r1.name = r2.name
           /\ r1.allele /= r2.allele
           /\ r1 \in Range(ret.rows)
           /\ r2 \notin Range(ret.rows)
           /\ ~ Passes(P, r1.score, Threshold(P, r1.allele))

----------------------------------------------------------------------------
(* C1: for any sequence of getCutoffs calls interleaved with changes to    *)
(* the corpus: a call made while the quantile cache file exists and        *)
(* overwrite is false does not rescan the corpus and leaves the cache file *)
(* unchanged (the cutoffs it returns come from the existing cache, even if *)
(* the corpus has changed since); a call made while the cache file is      *)
(* absent, or with overwrite true, rebuilds the cache from the current     *)
(* corpus before the cutoffs are read from it.  (A corpus without a score  *)
(* file gives the rescan nothing to build: the call raises, leaves the     *)
(* cache as it was and reads no cutoffs.)                                  *)
\* the files of the corpus that hold the predictor's score column
ScoreFiles == {f \in corpus : f.haskey}

\* the quantile table of the corpus as it is now
FreshTable == bins(scanned(glob(corpus, NoFile)), P.operator)

----------------------------------------------------------------------------
(* C8: cutoff inversion: when the predictor is lower-is-better (operator   *)
(* '<') the quantile table row labelled q holds, for each allele, the raw  *)
(* (1-q) quantile of that allele's pooled corpus scores; when it is        *)
(* higher-is-better the row labelled q holds the raw q quantile.  The      *)
(* pooled scores of an allele are one score per file and peptide, and the  *)
(* table holds each value to its precision of three decimals.              *)
PooledScores(a) == column(scanned(glob(corpus, NoFile)), a)

PooledAlleles == {r.allele : r \in UNION {Range(f.rows) : f \in ScoreFiles}}

\* the cell is the fraction f to the nearest thousandth
HoldsValue(cell, f) ==
    /\ 2 * (cell * f.den - f.num) <= f.den
    /\ 2 * (f.num - cell * f.den) <= f.den

C8_CutoffInversion ==
    (call.op = "getCutoffs" /\ ret.written) =>
        /\ DOMAIN quantfile.table = Labels
        /\ \A label \in Labels :
               /\ DOMAIN quantfile.table[label] = PooledAlleles
               /\ \A a \in PooledAlleles :
                      HoldsValue(quantfile.table[label][a],
                                 quantile(PooledScores(a),
                                          IF P.operator = "<"
                                          THEN 100 - (label \div 10)
                                          ELSE label \div 10))

\* a lower-is-better table just built: its row 0.99 holds a lower score
\* than its row 0.01
C8_Witness ==
    /\ call.op = "getCutoffs"
    /\ ret.written
    /\ P.operator = "<"
    /\ quantfile.table[990]["A"] < quantfile.table[10]["A"]

----------------------------------------------------------------------------
(* C9 (as claimed): cutoff lookup for any requested q between 0.01 and     *)
(* 0.99, including a q that is not one of the table's row labels, returns  *)
(* the per-allele values of the cached row whose label is nearest to q.    *)
Distance(a, b) == IF a >= b THEN a - b ELSE b - a

Nearest(q) ==
    CHOOSE l \in Labels : \A m \in Labels : Distance(l, q) <= Distance(m, q)

\* the call got as far as reading quantiles.csv
LookupReached ==
    /\ call.op = "getCutoffs"
    /\ ret.rescanned => ret.written

C9_NearestRowLookup ==
    LookupReached =>
        /\ ret.status = "ok"
        /\ ret.cutoffs = quantfile.table[Nearest(call.q)]

(* C9 (amended): cutoff lookup for a requested q that is one of the        *)
(* table's row labels (0.01, 0.02, ... 0.99) returns the per-allele values *)
(* of the row with that label; for a q that is not a row label the lookup  *)
(* raises KeyError and returns nothing.                                    *)
C9_ExactLabelLookup ==
    LookupReached =>
        IF call.q \in Labels
        THEN ret.status = "ok" /\ ret.cutoffs = quantfile.table[call.q]
        ELSE ret.status = "raised" /\ ret.error = "KeyError"

\* the row of the lowest label is returned, and it is not the row of the
\* highest one
C9_Witness ==
    /\ LookupReached
    /\ call.q = 10
    /\ ret.status = "ok"
    /\ ret.cutoffs = quantfile.table[10]
    /\ quantfile.table[10] /= quantfile.table[990]

----------------------------------------------------------------------------
(* C11: deduplication by core is idempotent: applying the core-motif       *)
(* grouping step of getPromiscuousBinders (group by core, aggregate the    *)
(* score, first-seen name, peptide, pos and allele, sort by pos) to its    *)
(* own output yields the same set of rows with the same values.            *)
C11_DedupIdempotent ==
    (Done("getPromiscuousBinders") /\ ret.status = "ok") =>
        SameRows(dedupByCore(ret.rows), ret.rows)

\* an output of two cores, one of them the collapse of several joined rows
C11_Witness ==
    /\ Done("getPromiscuousBinders")
    /\ ret.status = "ok"
    /\ Len(ret.rows) = 2
    /\ \E r \in Range(ret.rows) :
           Cardinality({keyOf(x) : x \in {y \in Range(BinderRows) :
                                              y.core = r.core}}) >= 2

----------------------------------------------------------------------------
(* C12: when getClusters builds the chain from a start position, the next  *)
(* lookup position is appended only if it lies within peptideLength (the   *)
(* length of the input peptides) of the last appended position, and        *)
(* extension stops at the first position that violates this bound; for     *)
(* positions {10,12,14,30} with 9-residue peptides and clusterLength 25    *)
(* the chain from 10 is [10,12,14] and does not contain 30.                *)
PeptideLength == Len(call.B[1].peptide)

Lookup == {call.B[k].pos : k \in 1..Len(call.B)}

\* the chain getClusters builds from the start position p (line 96)
ChainFrom(p) ==
    getOverlapping(Lookup, p, call.clustlen - PeptideLength, call.clustlen)

C12_ChainWithinPeptideLength ==
    (Done("getClusters") /\ call.B /= <<>>) =>
        \A p \in Lookup :
            LET g == ChainFrom(p)
            IN /\ g[1] = p
               /\ \A i \in 1..(Len(g) - 1) :
                      /\ g[i + 1] > g[i]
                      /\ g[i + 1] <= g[i] + PeptideLength
                      /\ \A x \in Lookup : ~ (g[i] < x /\ x < g[i + 1])
               /\ (call.B = ExampleB /\ call.clustlen = ExampleClustLen /\ p = 10)
                      => g = <<10, 12, 14>>

----------------------------------------------------------------------------
(* C13 (as claimed): in the acceptance step of getClusters a chain of      *)
(* length 1 is treated as never conflicting: a singleton chain whose       *)
(* position belongs to no already-accepted cluster is accepted into the    *)
(* final cluster list, whatever clusters were accepted before it.          *)
Accepted == UNION {Range(ret.rows[k]) : k \in 1..Len(ret.rows)}

----------------------------------------------------------------------------
(* C14 (as claimed): the candidate chain built from start position p is    *)
(* drawn from exactly the lookup positions in p+1 .. p+clusterLength       *)
(* inclusive: no accepted cluster contains a position greater than its     *)
(* first position plus clusterLength, and a lookup position equal to       *)
(* p+clusterLength is considered for appending to the chain from p.        *)
Last(g) == g[Len(g)]

\* q is the lookup position that comes next after the chain g from p, and
\* it is within the bound of the chain's last position
NextInReach(p, g, q) ==
    /\ q \in Lookup
    /\ q > Last(g)
    /\ \A x \in Lookup : ~ (Last(g) < x /\ x < q)
    /\ q <= Last(g) + (call.clustlen - PeptideLength)

C14_WindowInclusive ==
    (Done("getClusters") /\ ret.status = "ok") =>
        /\ \A k \in 1..Len(ret.rows) :
               \A x \in Range(ret.rows[k]) :
                   x <= ret.rows[k][1] + call.clustlen
        /\ \A p \in Lookup :
               /\ Range(ChainFrom(p)) \subseteq
                      {p} \cup (Lookup \cap ((p + 1)..(p + call.clustlen)))
               /\ ~ NextInReach(p, ChainFrom(p), p + call.clustlen)

(* C14 (amended): the candidate chain built from start position p is drawn *)
(* from exactly the lookup positions in p+1 .. p+clusterLength-1: no       *)
(* accepted cluster contains a position greater than its first position    *)
(* plus clusterLength minus 1, a lookup position equal to p+clusterLength  *)
(* is never appended to the chain from p, and a lookup position up to      *)
(* p+clusterLength-1 that comes next within the bound is appended.         *)
C14_WindowHalfOpen ==
    (Done("getClusters") /\ ret.status = "ok") =>
        /\ \A k \in 1..Len(ret.rows) :
               \A x \in Range(ret.rows[k]) :
                   x <= ret.rows[k][1] + call.clustlen - 1
        /\ \A p \in Lookup :
               /\ Range(ChainFrom(p)) \subseteq
                      {p} \cup (Lookup \cap ((p + 1)..(p + call.clustlen - 1)))
               /\ \A q \in (p + 1)..(p + call.clustlen - 1) :
                      ~ NextInReach(p, ChainFrom(p), q)

\* the position p+clusterLength is the next of the lookup, within the bound
\* of the last position of an accepted cluster, and is left out of it
C14_Witness ==
    /\ Done("getClusters")
    /\ ret.status = "ok"
    /\ \E k \in 1..Len(ret.rows) :
           LET g == ret.rows[k]
           IN /\ g = ChainFrom(g[1])
              /\ Len(g) >= 2
              /\ NextInReach(g[1], g, g[1] + call.clustlen)

----------------------------------------------------------------------------
(* C15: the final core-motif deduplication of getPromiscuousBinders keeps, *)
(* for each core group, the extreme score per direction: the minimum score *)
(* of the group when the predictor is lower-is-better (operator '<') and   *)
(* the maximum when it is higher-is-better.                                *)
\* the groups of binders that meet the threshold n
Survivors ==
    SelectSeq(aggregate(BinderRows, P.operator), LAMBDA r : r.allele >= call.n)

\* the table the deduplication groups by core
Joined == merge(representative(GivenData.rows), Survivors, call.order)

CoreGroupScores(c) == {x.score : x \in {y \in Range(Joined) : y.core = c}}

C15_DedupKeepsExtreme ==
    (Done("getPromiscuousBinders") /\ ret.status = "ok") =>
        \A r \in Range(ret.rows) :
            /\ r.score \in CoreGroupScores(r.core)
            /\ \A w \in CoreGroupScores(r.core) : ~ Better(P, w, r.score)

----------------------------------------------------------------------------
(* C16: the allele_count computed for each (peptide, position, protein)    *)
(* group of binders is the number of distinct alleles in the group:        *)
(* several binder records of the same allele for the same key count once,  *)
(* so a key supported by fewer than n distinct alleles is discarded even   *)
(* when it has n or more binder records.                                   *)
C16_CountsDistinctAlleles ==
    (Done("getPromiscuousBinders") /\ ret.status = "ok") =>
        /\ \A g \in Range(aggregate(BinderRows, P.operator)) :
               g.allele = Cardinality(SupportingAlleles(keyOf(g)))
        /\ \A r \in Range(ret.rows) :
               Cardinality(SupportingAlleles(keyOf(r))) >= call.n

----------------------------------------------------------------------------
(* C17: the corpus scan of getScoreDistributions reads at most 200 files,  *)
(* and a file lacking the scorekey column is non-fatal: it is skipped and  *)
(* the scan continues, so calibration completes without raising for any    *)
(* corpus, whichever of its files lack the column.                         *)
C17_ScanNeverRaises ==
    (call.op = "getCutoffs" /\ ret.rescanned) =>
        /\ Len(scanned(glob(corpus, NoFile))) <= MaxScan
        /\ ret.written
        /\ quantfile.exists
        /\ quantfile.table = FreshTable
        /\ DOMAIN quantfile.table[980] = PooledAlleles

----------------------------------------------------------------------------
(* dbscan *)

\* the sorted positions dbscan clusters
Points ==
    LET pos == [k \in 1..Len(call.B) |-> call.B[k].pos]
    IN sortByInt(pos, pos)

PointLabels == labelsOf(Points, call.dist, call.minsize)

ClusterLabels == Range(PointLabels) \ {Noise}

\* the positions carrying the label l, in the order of the points
Carrying(l) ==
    LET idx == SelectSeq([v \in 1..Len(Points) |-> v],
                         LAMBDA v : PointLabels[v] = l)
    IN [j \in 1..Len(idx) |-> Points[idx[j]]]

GroupsAreClusters ==
    /\ ret.status = "ok"
    /\ Len(ret.rows) = Cardinality(ClusterLabels)
    /\ \A k \in 1..Len(ret.rows) : Len(ret.rows[k]) > 0
    /\ \A l \in ClusterLabels :
           \E k \in 1..Len(ret.rows) : ret.rows[k] = Carrying(l)
    /\ \A k \in 1..Len(ret.rows) :
           Range(ret.rows[k]) \cap Range(Carrying(Noise)) = {}

\* C18: for a non-empty input dbscan returns exactly one group per
\* non-noise cluster label: each group is non-empty and holds all the
\* positions carrying its label, every labelled cluster is returned whether
\* or not there is noise, and no noise position is in any group.
C18_OneGroupPerLabel ==
    (Done("dbscan") /\ Len(call.B) > 0) => GroupsAreClusters

\* the same on an interpreter where zip() builds a list
OneGroupPerLabelOnPython2 ==
    (Done("dbscan") /\ Len(call.B) > 0 /\ call.python = 2)
        => GroupsAreClusters

\* a noise position before a cluster, returned on Python 2
NoiseBeforeCluster ==
    /\ Done("dbscan")
    /\ call.python = 2
    /\ ClusterLabels /= {}
    /\ PointLabels[1] = Noise

\* two clusters and no noise, returned on Python 2
TwoClustersNoNoise ==
    /\ Done("dbscan")
    /\ call.python = 2
    /\ Cardinality(ClusterLabels) = 2
    /\ Noise \notin Range(PointLabels)

----------------------------------------------------------------------------
(* getBindersfromPath *)

\* C19: getBindersfromPath selects binders with the allele cutoffs of the
\* quantile table's row for the level given by its cutoff argument.
C19_CutoffArgumentSelectsRow ==
    (Done("getBindersfromPath") /\ ret.status = "ok")
        => P.allelecutoffs = quantfile.table[call.cutoff]

\* the row used is the one for 0.98, whatever the cutoff argument
CutoffsFromDefaultRow ==
    (Done("getBindersfromPath") /\ ret.status = "ok")
        => /\ quantfile.table = FreshTable
           /\ P.allelecutoffs = quantfile.table[980]

\* a call that returned binders while the rows for 0.5 and 0.98 differ
PathBindersReached ==
    /\ Done("getBindersfromPath")
    /\ ret.status = "ok"
    /\ call.cutoff = 500
    /\ Len(ret.rows) > 0
    /\ quantfile.table[500] /= quantfile.table[980]

----------------------------------------------------------------------------
(* C20: no surviving promiscuous binder is lost when the descriptive       *)
(* columns are re-joined: for every (peptide, position, protein) group     *)
(* whose allele_count is at least n, the output of getPromiscuousBinders   *)
(* has a row carrying that group's core motif, even when the               *)
(* representative allele (the first allele group of the source table) has  *)
(* no record for that key.                                                 *)
\* the core motifs the source table records for a key
CoresOfKey(key) == {r.core : r \in {x \in Range(InputRows) : keyOf(x) = key}}

\* the keys the representative allele has a record for
RepresentativeKeys ==
    {keyOf(r) : r \in Range(representative(GivenData.rows))}

C20_NoSurvivorLost ==
    (Done("getPromiscuousBinders") /\ ret.status = "ok") =>
        \A s \in Range(Survivors) :
            \E r \in Range(ret.rows) : r.core \in CoresOfKey(keyOf(s))

\* the same for the survivors the representative allele has a record for
SurvivorOfRepresentativeKept ==
    (Done("getPromiscuousBinders") /\ ret.status = "ok") =>
        \A s \in Range(Survivors) :
            keyOf(s) \in RepresentativeKeys
                => \E r \in Range(ret.rows) : r.core \in CoresOfKey(keyOf(s))

====
